---- MODULE Spec2Model ----
(***************************************************************************)
(* MacMocker: the test-suite orchestrator (main, TestRunner.run,           *)
(* ConfigLoader, Reporter, TestResult) as a state machine.                 *)
(*                                                                         *)
(* One process (the orchestrator loop) and one asynchronous handler (the   *)
(* SIGINT/SIGTERM handler installed by TestRunner.__init__).  pc is the    *)
(* orchestrator's position; every action is one step of main/run between   *)
(* two points where the signal handler may run.                            *)
(***************************************************************************)
EXTENDS Integers, Sequences, FiniteSets, TLC

\* ---------------------------------------------------------------- bounds
MaxTests == 2          \* longest configured tests list explored
MaxResults == 5        \* longest result list given to the summary on its own
MaxReport == 2         \* longest result list written to the JSON report
MaxMsgLen == 2         \* longest message, in characters, written to the report
MaxDuration == 11      \* longest duration, in clock ticks, written to the report
MaxAttempts == 3       \* largest receive_check_attempts of the Outlook test
MaxUrls == 3           \* longest urls list of the network test
MaxTimeout == 4        \* largest timeout, in seconds, given to wait_for_process

\* ------------------------------------------------------------- constants
ExitOk == 0
ExitFailures == 1
ExitNoTests == 2
ExitFatal == 3
ExitInterrupted == 130
NoExit == ExitOk - 1   \* no exit code returned yet

EnabledValues == {"true", "false", "absent"}
DelayKinds == {"zero", "positive", "invalid"}
TestsKinds == {"list", "missing", "not_list"}

\* exception classes that the modelled code can raise
LoadErrors == {"ValueError", "ImportError", "AttributeError"}
CtorErrors == {"CtorException"}
RunErrors == {"RunException", "TimeoutExpired"}
ShotErrors == {"FileNotFoundError"}
DelayErrors == {"TypeError"}
PostErrors == {"ConnectionError", "Timeout", "HTTPError"}
Exceptions == LoadErrors \cup CtorErrors \cup RunErrors \cup ShotErrors \cup DelayErrors

VARIABLES
  pc,            \* position of main / TestRunner.run
  config,        \* the suite specification (ConfigLoader.config)
  enabled_tests, \* run(): enabled_tests, as indexes into config.tests
  idx,           \* run(): 1-based position in enabled_tests
  test_config,   \* run(): options of the entry bound by the for loop
  interrupted,   \* TestRunner.interrupted
  result,        \* test.result of the current test instance (TestResult)
  results,       \* Reporter.results
  end_time,      \* Reporter.end_time is set
  saved,         \* reports written by Reporter.save_report, oldest first
  teams_posts,   \* number of POSTs sent to the Teams webhook
  api_posts,     \* number of POSTs sent to the API endpoint
  exit_code,     \* value returned by main()
  attempted,     \* history: entries passed to _load_test_module, in order
  raised,        \* history: entries in which resolve/construct/run() raised
  broke,         \* history: the loop was left through its break
  int_at,        \* history: loop position executing when the first signal came
  shot_calls,    \* history: capture_screenshot calls made for the current entry
  flag_reads,    \* history: reads of self.interrupted in the current iteration
  sink_errors,   \* history: sinks whose POST raised a RequestException
  summaries,     \* history: values get_summary returned since the reporter changed
  timed_out,     \* history: a bounded call of the current entry's run() timed out
  signalled,     \* history: a signal arrived since run() was last called
  outlook,       \* MicrosoftOutlookTest._verify_email_received: its inputs and locals
  test           \* the test instance whose run() is followed step by step

vars == << pc, config, enabled_tests, idx, test_config, interrupted, result,
           results, end_time, saved, teams_posts, api_posts, exit_code,
           attempted, raised, broke, int_at, shot_calls, flag_reads,
           sink_errors, summaries, timed_out, signalled, outlook, test >>

\* ------------------------------------------------------------ data model
SeqsUpTo(S, n) == UNION { [1..k -> S] : k \in 0..n }

NoTestConfig == [delay_after |-> "zero", screenshot_on_failure |-> FALSE]

\* no test instance is followed step by step
NoTest == [kind |-> "none"]

\* no MicrosoftOutlookTest is verifying a receipt
NoOutlook == [stdouts |-> << >>, attempt |-> 0, synced |-> {}, verified |-> "pending"]

\* TestResult.__init__
NewTestResult == [status |-> "not_run", message |-> "", duration |-> 0, shots |-> 0]

\* TestResult.mark_started
mark_started(r) == [r EXCEPT !.status = "running"]

\* TestResult.mark_passed / mark_failed: duration is taken from the clock only
\* when start_time is set, i.e. when mark_started ran before
mark_passed(r, msg) ==
  [r EXCEPT !.status = "passed", !.message = msg,
            !.duration = IF r.status = "not_run" THEN r.duration ELSE 1]

mark_failed(r, msg) ==
  [r EXCEPT !.status = "failed", !.message = msg,
            !.duration = IF r.status = "not_run" THEN r.duration ELSE 1]

\* TestResult.mark_skipped
mark_skipped(r, msg) == [r EXCEPT !.status = "skipped", !.message = msg]

\* TestResult.add_screenshot
add_screenshot(r) == [r EXCEPT !.shots = r.shots + 1]

\* TestResult.to_dict, tagged with the configured entry it belongs to
to_dict(r, entry) ==
  [entry |-> entry, status |-> r.status, message |-> r.message,
   duration |-> r.duration, shots |-> r.shots]

\* a record that does not say what went wrong
InitFailedRecord_NoDetail(entry, e) ==
  [entry |-> entry, status |-> "failed", message |-> "Failed to initialise test",
   error_details |-> "", duration |-> 0, shots |-> 0]

\* the record run() builds in its except clause for the exception e; the
\* text of e is in error_details (and after the colon of the message)
InitFailedRecord(entry, e) ==
  [entry |-> entry, status |-> "failed", message |-> "Failed to initialise test",
   error_details |-> e, duration |-> 0, shots |-> 0]

\* --------------------------------------------------------- ConfigLoader
\* a validation that does not look at the entries
ValidConfig_NoModuleCheck(cfg) ==
  /\ cfg.has_suite_name
  /\ cfg.tests_kind = "list"

\* ConfigLoader._validate_config: TRUE iff no ValueError is raised
ValidConfig(cfg) ==
  /\ cfg.has_suite_name
  /\ cfg.tests_kind = "list"
  /\ \A i \in 1..Len(cfg.tests) : cfg.tests[i].has_module

\* ConfigLoader._validate_config: entries without 'enabled' get enabled = True
DefaultEnabled(tests) ==
  [i \in 1..Len(tests) |->
     IF tests[i].enabled = "absent" THEN [tests[i] EXCEPT !.enabled = "true"]
                                    ELSE tests[i]]

\* a filter that keeps every entry
GetEnabled_KeepAll(t) == TRUE

\* test.get("enabled", True)
GetEnabled(t) == t.enabled # "false"

RECURSIVE EnabledFrom(_, _)
EnabledFrom(tests, i) ==
  IF i > Len(tests) THEN << >>
  ELSE IF GetEnabled(tests[i]) THEN << i >> \o EnabledFrom(tests, i + 1)
       ELSE EnabledFrom(tests, i + 1)

\* a selection that returns every configured entry
get_enabled_tests_All(tests) == [i \in 1..Len(tests) |-> i]

\* ConfigLoader.get_enabled_tests: the enabled entries, as indexes, in order
get_enabled_tests(tests) == EnabledFrom(tests, 1)

\* ------------------------------------------------------------- Reporter
Count(rs, st) == Cardinality({ k \in 1..Len(rs) : rs[k].status = st })

\* a formatter that cuts the digits after the first decimal
Format1f_Truncate(num, den) == (num * 1000) \div den

\* f"{(num/den*100):.1f}": the percentage to one decimal, as a number of
\* tenths of a percent ("66.7" is 667); the nearest tenth, ties to even
Format1f(num, den) ==
  LET q == (num * 1000) \div den
      r == (num * 1000) % den
  IN IF 2 * r > den \/ (2 * r = den /\ q % 2 = 1) THEN q + 1 ELSE q

\* Reporter.get_summary: the counts and the success rate
get_summary(rs) ==
  [total_tests |-> Len(rs), passed |-> Count(rs, "passed"),
   failed |-> Count(rs, "failed"), skipped |-> Count(rs, "skipped"),
   success_rate |-> IF Len(rs) > 0 THEN Format1f(Count(rs, "passed"), Len(rs)) ELSE 0]

\* an elapsed time measured up to the call instead of up to end_time
summary_duration_Now(et) == IF et THEN 1 + Len(saved) + teams_posts + api_posts ELSE 0

\* get_summary: the elapsed time, 0.0 until finalize has set end_time and
\* end_time - start_time (one unit of time) afterwards
summary_duration(et) == IF et THEN 1 ELSE 0

\* the value a call of get_summary returns in the current state
get_summary_call ==
  [summary |-> get_summary(results), duration_seconds |-> summary_duration(end_time)]

\* post_to_teams: the two theme colours of the card
SuccessColour == "00FF00"
FailureColour == "FF0000"

\* a colour that is green only when every test passed
status_colour_OnAllPassed(summary) ==
  IF summary.passed = summary.total_tests THEN SuccessColour ELSE FailureColour

\* post_to_teams: status_colour
status_colour(summary) ==
  IF summary.failed = 0 THEN SuccessColour ELSE FailureColour

\* post_to_teams: the card a POST made in the current state carries
teams_card ==
  [themeColor |-> status_colour(get_summary(results)),
   facts |-> get_summary_call]

\* add_result that replaces the last record when it is for the same entry
add_result_Replace(rs, rec) ==
  IF rs # << >> /\ rs[Len(rs)].entry = rec.entry
    THEN [rs EXCEPT ![Len(rs)] = rec]
    ELSE Append(rs, rec)

\* Reporter.add_result
add_result(rs, rec) == Append(rs, rec)

\* an exit code that demands every result to be 'passed'
ExitCodeOf_AllPassed(s) ==
  IF s.total_tests = 0 THEN ExitNoTests
  ELSE IF s.passed = s.total_tests THEN ExitOk
  ELSE ExitFailures

\* an exit code that takes an empty run for a success
ExitCodeOf_EmptyOk(s) == IF s.failed > 0 THEN ExitFailures ELSE ExitOk

\* run(): the exit code derived from the summary
ExitCodeOf(s) ==
  IF s.failed > 0 THEN ExitFailures
  ELSE IF s.total_tests = 0 THEN ExitNoTests
  ELSE ExitOk

\* ------------------------------------------------------------- handlers
\* a handler that catches the resolver's errors only
RunCatches_LoadOnly(e) == e \in LoadErrors

\* run(): 'except Exception' around one loop iteration
RunCatches(e) == e \in Exceptions

\* _run_test(): 'except Exception' around test.run() and the failure screenshot
RunTestCatches(e) == e \in Exceptions

\* a handler that catches connection failures only
PostCatches_ConnectionOnly(e) == e \in {"ConnectionError", "Timeout"}

\* post_to_teams / post_to_api: 'except requests.RequestException'
PostCatches(e) == e \in PostErrors

\* ----------------------------------------------------------------- Init
ValidConfigs ==
  { [exists |-> TRUE, has_suite_name |-> TRUE, tests_kind |-> "list",
     tests |-> ts, teams_webhook |-> tw, api_url |-> au] :
       ts \in SeqsUpTo([has_module : {TRUE}, enabled : EnabledValues], MaxTests),
       tw \in BOOLEAN, au \in BOOLEAN }

\* the ways a suite specification can be unusable: no file, no suite_name,
\* tests missing or not a list, an entry without module
BrokenTests ==
  { << [has_module |-> FALSE, enabled |-> "absent"] >>,
    << [has_module |-> TRUE, enabled |-> "absent"],
       [has_module |-> FALSE, enabled |-> "true"] >> }

BrokenConfigs ==
  { [exists |-> ex, has_suite_name |-> sn, tests_kind |-> tk,
     tests |-> ts, teams_webhook |-> FALSE, api_url |-> FALSE] :
       ex \in BOOLEAN, sn \in BOOLEAN, tk \in TestsKinds,
       ts \in { << >> } \cup BrokenTests }

Configs ==
  ValidConfigs \cup { c \in BrokenConfigs : c.tests_kind # "list" => c.tests = << >> }

\* the state before main() has done anything, whatever the configuration
InitRun ==
  /\ pc = "main"
  /\ enabled_tests = << >>
  /\ idx = 0
  /\ test_config = NoTestConfig
  /\ interrupted = FALSE
  /\ result = NewTestResult
  /\ results = << >>
  /\ end_time = FALSE
  /\ saved = << >>
  /\ teams_posts = 0
  /\ api_posts = 0
  /\ exit_code = NoExit
  /\ attempted = << >>
  /\ raised = {}
  /\ broke = FALSE
  /\ int_at = 0
  /\ shot_calls = 0
  /\ flag_reads = 0
  /\ sink_errors = {}
  /\ summaries = {}
  /\ timed_out = FALSE
  /\ signalled = FALSE
  /\ outlook = NoOutlook
  /\ test = NoTest

Init == config \in Configs /\ InitRun

\* -------------------------------------------------------------- actions
CurrentEntry == enabled_tests[idx]

RunnerPcs == {"idle", "loop", "load", "run", "running", "returned", "except",
              "delay", "sleeping", "finalize", "save", "teams", "api", "summary"}

\* test.run() has been called and has not returned or raised yet
InRun == pc = "running"

\* main(): the configuration file does not exist
MainConfigMissing ==
  /\ pc = "main"
  /\ ~config.exists
  /\ exit_code' = ExitFailures
  /\ pc' = "done"
  /\ UNCHANGED << config, enabled_tests, idx, test_config, interrupted, result,
                  results, end_time, saved, teams_posts, api_posts, attempted,
                  raised, broke, int_at, shot_calls,
                  flag_reads, sink_errors, summaries,
                  timed_out, signalled, outlook, test >>

\* main(): directory and logging set up, the try block is entered
MainEnter ==
  /\ pc = "main"
  /\ config.exists
  /\ pc' = "import"
  /\ UNCHANGED << config, enabled_tests, idx, test_config, interrupted, result,
                  results, end_time, saved, teams_posts, api_posts, exit_code,
                  attempted, raised, broke, int_at, shot_calls,
                  flag_reads, sink_errors, summaries,
                  timed_out, signalled, outlook, test >>

\* main(): SIGINT before TestRunner.__init__ replaced the default handler
MainKeyboardInterrupt ==
  /\ pc = "import"
  /\ exit_code' = ExitInterrupted
  /\ pc' = "done"
  /\ UNCHANGED << config, enabled_tests, idx, test_config, interrupted, result,
                  results, end_time, saved, teams_posts, api_posts, attempted,
                  raised, broke, int_at, shot_calls,
                  flag_reads, sink_errors, summaries,
                  timed_out, signalled, outlook, test >>

\* TestRunner.__init__: interrupted = False, signal handlers installed
Construct ==
  /\ pc = "import"
  /\ interrupted' = FALSE
  /\ pc' = "idle"
  /\ UNCHANGED << config, enabled_tests, idx, test_config, result, results,
                  end_time, saved, teams_posts, api_posts, exit_code, attempted,
                  raised, broke, int_at, shot_calls,
                  flag_reads, sink_errors, summaries,
                  timed_out, signalled, outlook, test >>

\* TestRunner._handle_interrupt, run by SIGINT/SIGTERM at any point of run()
handle_interrupt ==
  /\ pc \in RunnerPcs
  /\ interrupted' = TRUE
  /\ signalled' = TRUE
  /\ int_at' = IF ~interrupted /\ InRun THEN idx ELSE int_at
  /\ UNCHANGED << pc, config, enabled_tests, idx, test_config, result, results,
                  end_time, saved, teams_posts, api_posts, exit_code, attempted,
                  raised, broke, shot_calls,
                  flag_reads, sink_errors, summaries,
                  timed_out, outlook, test >>

\* run(): config_loader.load(), Reporter(...) with its empty result list,
\* get_enabled_tests()
LoadConfig ==
  /\ pc = "idle"
  /\ IF ValidConfig(config)
       THEN /\ config' = [config EXCEPT !.tests = DefaultEnabled(config.tests)]
            /\ results' = << >>
            /\ end_time' = FALSE
            /\ summaries' = {}
            /\ enabled_tests' = get_enabled_tests(config'.tests)
            /\ idx' = 1
            /\ pc' = "loop"
            /\ exit_code' = exit_code
       ELSE /\ exit_code' = ExitFatal
            /\ pc' = "done"
            /\ UNCHANGED << config, enabled_tests, idx, results, end_time,
                            summaries >>
  /\ UNCHANGED << test_config, interrupted, result, saved, teams_posts,
                  api_posts, attempted, raised, broke, int_at, shot_calls,
                  flag_reads, sink_errors, timed_out, signalled, outlook, test >>

\* a loop head that looks at the flag before it looks for a next entry
LoopHead_CheckFirst ==
  /\ pc = "loop"
  /\ timed_out' = FALSE
  /\ IF interrupted
       THEN /\ pc' = "finalize" /\ broke' = TRUE /\ flag_reads' = 1
            /\ UNCHANGED test_config
       ELSE IF idx > Len(enabled_tests)
         THEN pc' = "finalize" /\ flag_reads' = 1 /\ UNCHANGED << broke, test_config >>
         ELSE /\ \E d \in DelayKinds, s \in BOOLEAN :
                   test_config' = [delay_after |-> d, screenshot_on_failure |-> s]
              /\ pc' = "load"
              /\ flag_reads' = 1
              /\ UNCHANGED broke
  /\ UNCHANGED << config, enabled_tests, idx, interrupted, result, results,
                  end_time, saved, teams_posts, api_posts, exit_code, attempted,
                  raised, int_at, shot_calls,
                  sink_errors, summaries, signalled, outlook, test >>

\* run(): head of the for loop, the only read of self.interrupted
LoopHead ==
  /\ pc = "loop"
  /\ timed_out' = FALSE
  /\ IF idx > Len(enabled_tests)
       THEN pc' = "finalize" /\ flag_reads' = 0 /\ UNCHANGED << broke, test_config >>
       ELSE IF interrupted
         THEN /\ pc' = "finalize" /\ broke' = TRUE /\ flag_reads' = 1
              /\ UNCHANGED test_config
         ELSE /\ \E d \in DelayKinds, s \in BOOLEAN :
                   test_config' = [delay_after |-> d, screenshot_on_failure |-> s]
              /\ pc' = "load"
              /\ flag_reads' = 1
              /\ UNCHANGED broke
  /\ UNCHANGED << config, enabled_tests, idx, interrupted, result, results,
                  end_time, saved, teams_posts, api_posts, exit_code, attempted,
                  raised, int_at, shot_calls,
                  sink_errors, summaries, signalled, outlook, test >>

\* a handler that swallows the exception without recording a result
Propagate_NoRecord(e) ==
  /\ idx' = idx + 1
  /\ pc' = "loop"
  /\ UNCHANGED << results, exit_code, summaries,
                  timed_out, signalled, outlook, test >>

\* an exception e leaves the try block of the loop body: run()'s
\* 'except Exception' records a failed result, otherwise it reaches the
\* function-level handler, which returns 3
Propagate(e) ==
  IF RunCatches(e)
    THEN /\ results' = add_result(results, InitFailedRecord(CurrentEntry, e))
         /\ idx' = idx + 1
         /\ pc' = "loop"
         /\ exit_code' = exit_code
         /\ summaries' = {}
    ELSE /\ exit_code' = ExitFatal
         /\ pc' = "done"
         /\ UNCHANGED << results, idx,
                  flag_reads, sink_errors, summaries >>

\* run(): _load_test_module resolves the class and constructs the test
LoadTestModule ==
  /\ pc = "load"
  /\ attempted' = Append(attempted, CurrentEntry)
  /\ shot_calls' = 0
  /\ \/ /\ result' = NewTestResult
        /\ pc' = "run"
        /\ UNCHANGED << results, idx, exit_code, raised,
                  flag_reads, sink_errors, summaries >>
     \/ \E e \in LoadErrors \cup CtorErrors :
          /\ raised' = raised \cup {CurrentEntry}
          /\ Propagate(e)
          /\ UNCHANGED result
  /\ UNCHANGED << config, enabled_tests, test_config, interrupted, end_time,
                  saved, teams_posts, api_posts, broke, int_at,
                  flag_reads, sink_errors,
                  timed_out, signalled, outlook, test >>

\* _run_test: test.run() is entered and calls result.mark_started()
RunStart ==
  /\ pc = "run"
  /\ result' = mark_started(result)
  /\ pc' = "running"
  /\ UNCHANGED << config, enabled_tests, idx, test_config, interrupted, results,
                  end_time, saved, teams_posts, api_posts, exit_code, attempted,
                  raised, broke, int_at, shot_calls,
                  flag_reads, sink_errors, summaries,
                  timed_out, signalled, outlook, test >>

\* an exception e raised inside _run_test's try block
RaiseInRunTest(e) ==
  IF RunTestCatches(e)
    THEN pc' = "except" /\ UNCHANGED << results, idx, exit_code, summaries >>
    ELSE Propagate(e)

\* how a bounded external call (run_command) made by run() ends
CallOutcomes == {"completed", "timeout"}

\* the statuses the shipped tests give after such a call: after a timeout the
\* helper reports failure (_launch_application), or swallows it and reports
\* success (_check_window_visible, _check_menu_bar_loaded,
\* _check_no_crash_dialogs), or counts it in a tally the verdict does not
\* read (_test_dns)
VerdictsAfter(call) ==
  IF call = "timeout" THEN {"passed", "failed"}
                      ELSE {"passed", "failed", "skipped"}

\* the exception that leaves run() when the test does not catch
RaisedAfter(call) == IF call = "timeout" THEN "TimeoutExpired" ELSE "RunException"

\* a test that returns from its skip branch without marking the result
Marked_SkipUnmarked(r, st) ==
  CASE st = "passed" -> mark_passed(r, "completed")
    [] st = "failed" -> mark_failed(r, "step failed")
    [] st = "skipped" -> r

\* result.mark_passed / mark_failed / mark_skipped as the tests call them
Marked(r, st) ==
  CASE st = "passed" -> mark_passed(r, "completed")
    [] st = "failed" -> mark_failed(r, "step failed")
    [] st = "skipped" -> mark_skipped(r, "not installed")

\* test.run(): the body makes its external calls, marks the result and
\* returns it, or raises before or after marking (the finally clause runs
\* the cleanup after the mark)
RunBody ==
  /\ pc = "running"
  /\ \E call \in CallOutcomes :
       /\ timed_out' = (call = "timeout")
       /\ \/ /\ \E st \in VerdictsAfter(call) : result' = Marked(result, st)
             /\ \/ pc' = "returned"
                   /\ UNCHANGED << results, idx, exit_code, raised, summaries >>
                \/ \E e \in RunErrors :
                     /\ raised' = raised \cup {CurrentEntry}
                     /\ RaiseInRunTest(e)
          \/ /\ UNCHANGED result
             /\ raised' = raised \cup {CurrentEntry}
             /\ RaiseInRunTest(RaisedAfter(call))
  /\ UNCHANGED << config, enabled_tests, test_config, interrupted, end_time,
                  saved, teams_posts, api_posts, attempted, broke, int_at,
                  shot_calls,
                  flag_reads, sink_errors, signalled, outlook, test >>

\* _run_test returns a dict and run() adds it to the reporter
Collect(r) ==
  /\ results' = add_result(results, to_dict(r, CurrentEntry))
  /\ summaries' = {}
  /\ pc' = "delay"
  /\ UNCHANGED << idx, exit_code,
                  flag_reads, sink_errors,
                  timed_out, signalled, outlook, test >>

\* does _run_test capture a screenshot for a returned result
WantsFailureShot(r, tc) == r.status = "failed" /\ tc.screenshot_on_failure

\* _run_test: branch on result.status, optional failure screenshot, to_dict
AfterRun ==
  /\ pc = "returned"
  /\ IF WantsFailureShot(result, test_config)
       THEN /\ shot_calls' = shot_calls + 1
            /\ \/ result' = add_screenshot(result) /\ Collect(result')
               \/ UNCHANGED result /\ Collect(result)
               \/ \E e \in ShotErrors : UNCHANGED result /\ RaiseInRunTest(e)
       ELSE UNCHANGED << result, shot_calls >> /\ Collect(result)
  /\ UNCHANGED << config, enabled_tests, test_config, interrupted, end_time,
                  saved, teams_posts, api_posts, attempted, raised, broke,
                  int_at,
                  flag_reads, sink_errors,
                  timed_out, signalled, outlook, test >>

\* _run_test: the except clause: mark_failed, capture_screenshot, to_dict
RunTestExcept ==
  /\ pc = "except"
  /\ shot_calls' = shot_calls + 1
  /\ LET failed == mark_failed(result, "Exception raised") IN
       \/ result' = add_screenshot(failed) /\ Collect(result')
       \/ result' = failed /\ Collect(failed)
       \/ \E e \in ShotErrors : result' = failed /\ Propagate(e)
  /\ UNCHANGED << config, enabled_tests, test_config, interrupted, end_time,
                  saved, teams_posts, api_posts, attempted, raised, broke,
                  int_at,
                  flag_reads, sink_errors,
                  timed_out, signalled, outlook, test >>

\* a delay step that never sleeps
DelayAfter_NoSleep ==
  /\ pc = "delay"
  /\ IF test_config.delay_after = "invalid"
       THEN \E e \in DelayErrors : Propagate(e)
       ELSE idx' = idx + 1 /\ pc' = "loop" /\ UNCHANGED << results, exit_code, summaries >>
  /\ UNCHANGED << config, enabled_tests, test_config, interrupted, result,
                  end_time, saved, teams_posts, api_posts, attempted, raised,
                  broke, int_at, shot_calls, flag_reads, sink_errors,
                  timed_out, signalled, outlook, test >>

\* run(): 'if test_config.get("delay_after", 0) > 0: time.sleep(delay)'
DelayAfter ==
  /\ pc = "delay"
  /\ CASE test_config.delay_after = "zero" ->
            idx' = idx + 1 /\ pc' = "loop" /\ UNCHANGED << results, exit_code, summaries >>
       [] test_config.delay_after = "positive" ->
            pc' = "sleeping" /\ UNCHANGED << idx, results, exit_code, summaries >>
       [] test_config.delay_after = "invalid" ->
            \E e \in DelayErrors : Propagate(e)
  /\ UNCHANGED << config, enabled_tests, test_config, interrupted, result,
                  end_time, saved, teams_posts, api_posts, attempted, raised,
                  broke, int_at, shot_calls,
                  flag_reads, sink_errors,
                  timed_out, signalled, outlook, test >>

\* a sleep that gives up when the cancellation flag is set
Wake_AbortOnInterrupt ==
  /\ pc = "sleeping"
  /\ IF interrupted
       THEN pc' = "finalize" /\ broke' = TRUE /\ flag_reads' = flag_reads + 1
            /\ UNCHANGED idx
       ELSE idx' = idx + 1 /\ pc' = "loop" /\ UNCHANGED << broke, flag_reads >>
  /\ UNCHANGED << config, enabled_tests, test_config, interrupted, result,
                  results, end_time, saved, teams_posts, api_posts, exit_code,
                  attempted, raised, int_at, shot_calls, sink_errors, summaries,
                  timed_out, signalled, outlook, test >>

\* a sleep that returns only when a signal has arrived
Wake_OnSignalOnly ==
  /\ pc = "sleeping"
  /\ interrupted
  /\ idx' = idx + 1
  /\ pc' = "loop"
  /\ UNCHANGED << config, enabled_tests, test_config, interrupted, result,
                  results, end_time, saved, teams_posts, api_posts, exit_code,
                  attempted, raised, broke, int_at, shot_calls,
                  flag_reads, sink_errors, summaries, timed_out, signalled, outlook, test >>

\* run(): time.sleep(delay) returns
Wake ==
  /\ pc = "sleeping"
  /\ idx' = idx + 1
  /\ pc' = "loop"
  /\ UNCHANGED << config, enabled_tests, test_config, interrupted, result,
                  results, end_time, saved, teams_posts, api_posts, exit_code,
                  attempted, raised, broke, int_at, shot_calls,
                  flag_reads, sink_errors, summaries,
                  timed_out, signalled, outlook, test >>

\* Reporter.finalize
finalize ==
  /\ pc = "finalize"
  /\ end_time' = TRUE
  /\ summaries' = {}
  /\ pc' = "save"
  /\ UNCHANGED << config, enabled_tests, idx, test_config, interrupted, result,
                  results, saved, teams_posts, api_posts, exit_code, attempted,
                  raised, broke, int_at, shot_calls,
                  flag_reads, sink_errors,
                  timed_out, signalled, outlook, test >>

\* Reporter.save_report: the text and JSON reports are written
save_report ==
  /\ pc = "save"
  /\ saved' = Append(saved, [summary |-> get_summary(results), results |-> results])
  /\ summaries' = summaries \cup {get_summary_call}
  /\ pc' = "teams"
  /\ UNCHANGED << config, enabled_tests, idx, test_config, interrupted, result,
                  results, end_time, teams_posts, api_posts, exit_code,
                  attempted, raised, broke, int_at, shot_calls,
                  flag_reads, sink_errors,
                  timed_out, signalled, outlook, test >>

\* a test that takes every sink as configured
IsConfigured_Always(url) == TRUE

\* reporting_config.get(key) is truthy
IsConfigured(url) == url

\* run(): a sink's POST: nothing when the sink is not configured, else one
\* request that succeeds or raises; post_to_teams / post_to_api catch
\* RequestException, anything else reaches run()'s handler, which returns 3
PostSink(sink, configured, next) ==
  IF ~IsConfigured(configured)
    THEN pc' = next /\ UNCHANGED << teams_posts, api_posts, sink_errors, exit_code,
                                     summaries >>
    ELSE /\ summaries' = summaries \cup {get_summary_call}
         /\ teams_posts' = IF sink = "teams" THEN teams_posts + 1 ELSE teams_posts
         /\ api_posts' = IF sink = "api" THEN api_posts + 1 ELSE api_posts
         /\ \/ pc' = next /\ UNCHANGED << sink_errors, exit_code >>
            \/ \E e \in PostErrors :
                 IF PostCatches(e)
                   THEN /\ sink_errors' = sink_errors \cup {sink}
                        /\ pc' = next
                        /\ UNCHANGED exit_code
                   ELSE /\ exit_code' = ExitFatal
                        /\ pc' = "done"
                        /\ UNCHANGED sink_errors

\* run(): post_to_teams when reporting.teams_webhook is set
post_to_teams ==
  /\ pc = "teams"
  /\ PostSink("teams", config.teams_webhook, "api")
  /\ UNCHANGED << config, enabled_tests, idx, test_config, interrupted, result,
                  results, end_time, saved, attempted, raised, broke, int_at,
                  shot_calls, flag_reads,
                  timed_out, signalled, outlook, test >>

\* run(): post_to_api when reporting.api_url is set
post_to_api ==
  /\ pc = "api"
  /\ PostSink("api", config.api_url, "summary")
  /\ UNCHANGED << config, enabled_tests, idx, test_config, interrupted, result,
                  results, end_time, saved, attempted, raised, broke, int_at,
                  shot_calls, flag_reads,
                  timed_out, signalled, outlook, test >>

\* an exit code that turns fatal when anything was raised or a POST failed
ReturnExitCode_ByException ==
  /\ pc = "summary"
  /\ exit_code' = IF raised # {} \/ sink_errors # {}
                    THEN ExitFatal
                    ELSE ExitCodeOf(get_summary(results))
  /\ summaries' = summaries \cup {get_summary_call}
  /\ pc' = "done"
  /\ UNCHANGED << config, enabled_tests, idx, test_config, interrupted, result,
                  results, end_time, saved, teams_posts, api_posts, attempted,
                  raised, broke, int_at, shot_calls,
                  flag_reads, sink_errors,
                  timed_out, signalled, outlook, test >>

\* run(): get_summary() and the exit code; main() returns it
ReturnExitCode ==
  /\ pc = "summary"
  /\ exit_code' = ExitCodeOf(get_summary(results))
  /\ summaries' = summaries \cup {get_summary_call}
  /\ pc' = "done"
  /\ UNCHANGED << config, enabled_tests, idx, test_config, interrupted, result,
                  results, end_time, saved, teams_posts, api_posts, attempted,
                  raised, broke, int_at, shot_calls,
                  flag_reads, sink_errors,
                  timed_out, signalled, outlook, test >>

Next ==
  \/ MainConfigMissing
  \/ MainEnter
  \/ MainKeyboardInterrupt
  \/ Construct
  \/ handle_interrupt
  \/ LoadConfig
  \/ LoopHead
  \/ LoadTestModule
  \/ RunStart
  \/ RunBody
  \/ AfterRun
  \/ RunTestExcept
  \/ DelayAfter
  \/ Wake
  \/ finalize
  \/ save_report
  \/ post_to_teams
  \/ post_to_api
  \/ ReturnExitCode

Spec == Init /\ [][Next]_vars

\* run() is called once more on the same TestRunner after it returned; the
\* histories start again with the call, the object keeps its fields
RunAgain ==
  /\ pc = "done"
  /\ exit_code \in {ExitOk, ExitFailures, ExitNoTests, ExitFatal}
  /\ config.exists
  /\ pc' = "idle"
  /\ exit_code' = NoExit
  /\ enabled_tests' = << >>
  /\ idx' = 0
  /\ test_config' = NoTestConfig
  /\ saved' = << >>
  /\ teams_posts' = 0
  /\ api_posts' = 0
  /\ attempted' = << >>
  /\ raised' = {}
  /\ broke' = FALSE
  /\ int_at' = 0
  /\ shot_calls' = 0
  /\ flag_reads' = 0
  /\ sink_errors' = {}
  /\ timed_out' = FALSE
  /\ signalled' = FALSE
  /\ UNCHANGED << config, interrupted, result, results, end_time, summaries, outlook, test >>

NextRerun == Next \/ RunAgain

\* the suite [A enabled, B disabled, C enabled], with either way of writing
\* an enabled entry, any reporting configuration, file present or not
ScenarioABC ==
  { [exists |-> ex, has_suite_name |-> TRUE, tests_kind |-> "list",
     tests |-> << [has_module |-> TRUE, enabled |-> a],
                  [has_module |-> TRUE, enabled |-> "false"],
                  [has_module |-> TRUE, enabled |-> c] >>,
     teams_webhook |-> tw, api_url |-> au] :
       ex \in BOOLEAN, a \in {"true", "absent"}, c \in {"true", "absent"},
       tw \in BOOLEAN, au \in BOOLEAN }

InitABC == config \in ScenarioABC /\ InitRun

SpecABC == InitABC /\ [][Next]_vars

\* the steps of the orchestrator's own thread; it runs until main() returns,
\* every test.run() returns or raises and every sleep ends.  The signal and
\* the KeyboardInterrupt are the environment's and may never come.
OrchestratorStep ==
  \/ MainConfigMissing
  \/ MainEnter
  \/ Construct
  \/ LoadConfig
  \/ LoopHead
  \/ LoadTestModule
  \/ RunStart
  \/ RunBody
  \/ AfterRun
  \/ RunTestExcept
  \/ DelayAfter
  \/ Wake
  \/ finalize
  \/ save_report
  \/ post_to_teams
  \/ post_to_api
  \/ ReturnExitCode

SpecLive == InitABC /\ [][Next]_vars /\ WF_vars(OrchestratorStep)

\* the same suite on a TestRunner whose run() is called again and again
SpecRerun == InitABC /\ [][NextRerun]_vars

\* the TestResult a test leaves when run() returns with status st and no
\* screenshot was taken
ReturnedResult(st) ==
  CASE st = "passed" -> mark_passed(mark_started(NewTestResult), "completed")
    [] st = "failed" -> mark_failed(mark_started(NewTestResult), "step failed")
    [] st = "skipped" -> mark_skipped(mark_started(NewTestResult), "not installed")

\* the end of the loop of a suite of n enabled tests whose run() returned
\* the statuses sts, one after the other, with no delay and no signal
InitSummary ==
  \E sts \in SeqsUpTo({"passed", "failed", "skipped"}, MaxResults),
     tw \in BOOLEAN, au \in BOOLEAN :
    LET n == Len(sts) IN
    /\ pc = "finalize"
    /\ config = [exists |-> TRUE, has_suite_name |-> TRUE, tests_kind |-> "list",
                 tests |-> [i \in 1..n |-> [has_module |-> TRUE, enabled |-> "true"]],
                 teams_webhook |-> tw, api_url |-> au]
    /\ enabled_tests = [i \in 1..n |-> i]
    /\ idx = n + 1
    /\ test_config = NoTestConfig
    /\ interrupted = FALSE
    /\ result = IF n = 0 THEN NewTestResult ELSE ReturnedResult(sts[n])
    /\ results = [i \in 1..n |-> to_dict(ReturnedResult(sts[i]), i)]
    /\ end_time = FALSE
    /\ saved = << >>
    /\ teams_posts = 0
    /\ api_posts = 0
    /\ exit_code = NoExit
    /\ attempted = [i \in 1..n |-> i]
    /\ raised = {}
    /\ broke = FALSE
    /\ int_at = 0
    /\ shot_calls = 0
    /\ flag_reads = 0
    /\ sink_errors = {}
    /\ summaries = {}
    /\ timed_out = FALSE
    /\ signalled = FALSE
    /\ outlook = NoOutlook
    /\ test = NoTest

\* what run() does after the loop
NextSummary ==
  \/ handle_interrupt
  \/ finalize
  \/ save_report
  \/ post_to_teams
  \/ post_to_api
  \/ ReturnExitCode

SpecSummary == InitSummary /\ [][NextSummary]_vars

\* ------------------------------------------------------ the JSON report
\* characters a message can hold: plain ones, the ones JSON escapes, and one
\* outside ASCII
Quote == "\""
Backslash == "\\"
Newline == "\n"
EAcute == "U+00E9"
JsonChars == {"a", "n", Quote, Backslash, Newline, EAcute}

DigitChars == << "0", "1", "2", "3", "4", "5", "6", "7", "8", "9" >>

\* an encoder that leaves the backslash as it is
json_escape_NoBackslash(c) ==
  CASE c = Quote -> << Backslash, Quote >>
    [] c = Newline -> << Backslash, "n" >>
    [] c = EAcute -> << Backslash, "u", "0", "0", "e", "9" >>
    [] OTHER -> << c >>

\* json.dump, one character of a string (ensure_ascii is on)
json_escape(c) ==
  CASE c = Quote -> << Backslash, Quote >>
    [] c = Backslash -> << Backslash, Backslash >>
    [] c = Newline -> << Backslash, "n" >>
    [] c = EAcute -> << Backslash, "u", "0", "0", "e", "9" >>
    [] OTHER -> << c >>

RECURSIVE json_escape_all(_)
json_escape_all(m) ==
  IF m = << >> THEN << >> ELSE json_escape(Head(m)) \o json_escape_all(Tail(m))

\* json.dump of a str: the escaped characters between two quotes
json_dumps_str(m) == << Quote >> \o json_escape_all(m) \o << Quote >>

\* json.dump of a number: its decimal digits
RECURSIVE json_dumps_num(_)
json_dumps_num(n) ==
  IF n < 10 THEN << DigitChars[n + 1] >>
  ELSE json_dumps_num(n \div 10) \o << DigitChars[(n % 10) + 1] >>

\* json.dump of one result dict, members in the order to_dict builds them
json_dumps_result(r) ==
  << << "test_name", json_dumps_str(json_dumps_num(r.entry)) >>,
     << "status", json_dumps_str(<< r.status >>) >>,
     << "duration_seconds", json_dumps_num(r.duration) >>,
     << "message", json_dumps_str(r.message) >> >>

\* json.dump({"summary": ..., "results": self.results})
json_dumps(sm, rs) ==
  [summary |-> << << "total_tests", json_dumps_num(sm.total_tests) >>,
                  << "passed", json_dumps_num(sm.passed) >>,
                  << "failed", json_dumps_num(sm.failed) >>,
                  << "skipped", json_dumps_num(sm.skipped) >> >>,
   results |-> [k \in 1..Len(rs) |-> json_dumps_result(rs[k])]]

\* json.load of the characters of a string, the quotes taken off; an escape
\* that is cut short does not parse
RECURSIVE json_unescape(_)
json_unescape(t) ==
  IF t = << >> THEN << >>
  ELSE IF Head(t) # Backslash THEN << Head(t) >> \o json_unescape(Tail(t))
  ELSE IF Len(t) < 2 \/ (t[2] = "u" /\ Len(t) < 6) THEN << "JSONDecodeError" >>
  ELSE IF t[2] = "u"
         THEN << IF SubSeq(t, 3, 6) = << "0", "0", "e", "9" >>
                   THEN EAcute ELSE "JSONDecodeError" >>
              \o json_unescape(SubSeq(t, 7, Len(t)))
  ELSE << IF t[2] = "n" THEN Newline ELSE t[2] >> \o json_unescape(SubSeq(t, 3, Len(t)))

\* json.load of a str
json_loads_str(t) == json_unescape(SubSeq(t, 2, Len(t) - 1))

\* json.load of a number
RECURSIVE json_loads_num(_)
json_loads_num(t) ==
  IF t = << >> THEN 0
  ELSE 10 * json_loads_num(SubSeq(t, 1, Len(t) - 1))
       + ((CHOOSE d \in 1..10 : DigitChars[d] = t[Len(t)]) - 1)

\* the value of member key of a parsed object
json_member(obj, key) == obj[CHOOSE i \in 1..Len(obj) : obj[i][1] = key][2]

\* json.load of one result dict
json_loads_result(obj) ==
  [status |-> json_loads_str(json_member(obj, "status"))[1],
   duration |-> json_loads_num(json_member(obj, "duration_seconds")),
   message |-> json_loads_str(json_member(obj, "message"))]

\* json.load(...)["results"]
json_loads_results(doc) ==
  [k \in 1..Len(doc.results) |-> json_loads_result(doc.results[k])]

\* result dicts as a test can return them: any terminal status, any message
\* of up to MaxMsgLen characters, any duration up to MaxDuration
ReportRecords ==
  [status : {"passed", "failed", "skipped"},
   message : SeqsUpTo(JsonChars, MaxMsgLen),
   duration : 0..MaxDuration]

\* a few of them, for the lists of more than one result
ReportSamples ==
  { [status |-> "passed", message |-> << "a" >>, duration |-> 1],
    [status |-> "failed", message |-> << Quote, Backslash >>, duration |-> 10],
    [status |-> "failed", message |-> << Backslash, "n" >>, duration |-> 0],
    [status |-> "skipped", message |-> << >>, duration |-> 0] }

ReportInputs ==
  { << r >> : r \in ReportRecords } \cup SeqsUpTo(ReportSamples, MaxReport)

\* a reporter that holds the results rs after finalize, before save_report
InitReport ==
  \E rs \in ReportInputs :
    LET n == Len(rs) IN
    /\ pc = "save"
    /\ config = [exists |-> TRUE, has_suite_name |-> TRUE, tests_kind |-> "list",
                 tests |-> [i \in 1..n |-> [has_module |-> TRUE, enabled |-> "true"]],
                 teams_webhook |-> FALSE, api_url |-> FALSE]
    /\ enabled_tests = [i \in 1..n |-> i]
    /\ idx = n + 1
    /\ test_config = NoTestConfig
    /\ interrupted = FALSE
    /\ result = IF n = 0 THEN NewTestResult
                ELSE [status |-> rs[n].status, message |-> rs[n].message,
                      duration |-> rs[n].duration, shots |-> 0]
    /\ results = [i \in 1..n |->
                    [entry |-> i, status |-> rs[i].status, message |-> rs[i].message,
                     duration |-> rs[i].duration, shots |-> 0]]
    /\ end_time = TRUE
    /\ saved = << >>
    /\ teams_posts = 0
    /\ api_posts = 0
    /\ exit_code = NoExit
    /\ attempted = [i \in 1..n |-> i]
    /\ raised = {}
    /\ broke = FALSE
    /\ int_at = 0
    /\ shot_calls = 0
    /\ flag_reads = 0
    /\ sink_errors = {}
    /\ summaries = {}
    /\ timed_out = FALSE
    /\ signalled = FALSE
    /\ outlook = NoOutlook
    /\ test = NoTest

\* Reporter.save_report, with the text of the JSON file spelled out
json_dump ==
  /\ pc = "save"
  /\ saved' = Append(saved, [summary |-> get_summary(results), results |-> results,
                             json |-> json_dumps(get_summary(results), results)])
  /\ summaries' = summaries \cup {get_summary_call}
  /\ pc' = "teams"
  /\ UNCHANGED << config, enabled_tests, idx, test_config, interrupted, result,
                  results, end_time, teams_posts, api_posts, exit_code,
                  attempted, raised, broke, int_at, shot_calls,
                  flag_reads, sink_errors,
                  timed_out, signalled, outlook, test >>

NextReport ==
  \/ handle_interrupt
  \/ json_dump

SpecReport == InitReport /\ [][NextReport]_vars

\* ------------------------------------- MicrosoftOutlookTest, the receipt
\* what one inbox query can give: the script's three answers, as the words
\* of stdout, or no answer within the timeout
FoundOut == << "found" >>
NotFoundOut == << "not_", "found" >>
ErrorOut == << "error: ", "Outlook got an error" >>
TimedOut == << "TimeoutExpired" >>
QueryOutcomes == {FoundOut, NotFoundOut, ErrorOut, TimedOut}

\* Python's  word in text , for a text given as its words
Contains(word, text) == \E i \in 1..Len(text) : text[i] = word

\* the Outlook test of a one-entry suite is inside run(), about to verify the
\* receipt; the answers its queries will get are stdouts
InitOutlook ==
  \E outs \in SeqsUpTo(QueryOutcomes, MaxAttempts), tw \in BOOLEAN, au \in BOOLEAN :
    /\ pc = "running"
    /\ config = [exists |-> TRUE, has_suite_name |-> TRUE, tests_kind |-> "list",
                 tests |-> << [has_module |-> TRUE, enabled |-> "true"] >>,
                 teams_webhook |-> tw, api_url |-> au]
    /\ enabled_tests = << 1 >>
    /\ idx = 1
    /\ test_config = NoTestConfig
    /\ interrupted = FALSE
    /\ result = mark_started(NewTestResult)
    /\ results = << >>
    /\ end_time = FALSE
    /\ saved = << >>
    /\ teams_posts = 0
    /\ api_posts = 0
    /\ exit_code = NoExit
    /\ attempted = << 1 >>
    /\ raised = {}
    /\ broke = FALSE
    /\ int_at = 0
    /\ shot_calls = 0
    /\ flag_reads = 1
    /\ sink_errors = {}
    /\ summaries = {}
    /\ timed_out = FALSE
    /\ signalled = FALSE
    /\ outlook = [stdouts |-> outs, attempt |-> 0, synced |-> {}, verified |-> "pending"]
    /\ test = NoTest

\* _verify_email_received with the wait-and-sync step after every attempt
verify_email_received_SyncAlways ==
  /\ pc = "running"
  /\ outlook.verified = "pending"
  /\ IF outlook.attempt >= Len(outlook.stdouts)
       THEN outlook' = [outlook EXCEPT !.verified = "false"]
       ELSE LET out == outlook.stdouts[outlook.attempt + 1] IN
            IF out = TimedOut
              THEN outlook' = [outlook EXCEPT !.attempt = @ + 1, !.verified = "false"]
              ELSE IF Contains("found", out)
                THEN outlook' = [outlook EXCEPT !.attempt = @ + 1, !.verified = "true"]
                ELSE outlook' = [outlook EXCEPT !.attempt = @ + 1,
                                                !.synced = @ \cup {outlook.attempt + 1}]
  /\ timed_out' = (timed_out \/ (outlook.attempt < Len(outlook.stdouts)
                                  /\ outlook.stdouts[outlook.attempt + 1] = TimedOut))
  /\ UNCHANGED << pc, config, enabled_tests, idx, test_config, interrupted, result,
                  results, end_time, saved, teams_posts, api_posts, exit_code,
                  attempted, raised, broke, int_at, shot_calls, flag_reads,
                  sink_errors, summaries, signalled, test >>

\* _verify_email_received: one pass of its loop (the query, then the wait and
\* the sync when another attempt follows), or the return after it.
\* max_attempts is Len(outlook.stdouts); outlook.synced holds the attempts
\* that were followed by the wait-and-sync step
verify_email_received ==
  /\ pc = "running"
  /\ outlook.verified = "pending"
  /\ IF outlook.attempt >= Len(outlook.stdouts)
       THEN outlook' = [outlook EXCEPT !.verified = "false"]
       ELSE LET out == outlook.stdouts[outlook.attempt + 1] IN
            IF out = TimedOut
              THEN outlook' = [outlook EXCEPT !.attempt = @ + 1, !.verified = "false"]
              ELSE IF Contains("found", out)
                THEN outlook' = [outlook EXCEPT !.attempt = @ + 1, !.verified = "true"]
                ELSE IF outlook.attempt < Len(outlook.stdouts) - 1
                  THEN outlook' = [outlook EXCEPT !.attempt = @ + 1,
                                                  !.synced = @ \cup {outlook.attempt + 1}]
                  ELSE outlook' = [outlook EXCEPT !.attempt = @ + 1]
  /\ timed_out' = (timed_out \/ (outlook.attempt < Len(outlook.stdouts)
                                  /\ outlook.stdouts[outlook.attempt + 1] = TimedOut))
  /\ UNCHANGED << pc, config, enabled_tests, idx, test_config, interrupted, result,
                  results, end_time, saved, teams_posts, api_posts, exit_code,
                  attempted, raised, broke, int_at, shot_calls, flag_reads,
                  sink_errors, summaries, signalled, test >>

\* MicrosoftOutlookTest.run: the verdict on the receipt and the return
OutlookVerdict ==
  /\ pc = "running"
  /\ outlook.verified # "pending"
  /\ result' = Marked(result, IF outlook.verified = "true" THEN "passed" ELSE "failed")
  /\ pc' = "returned"
  /\ UNCHANGED << config, enabled_tests, idx, test_config, interrupted, results,
                  end_time, saved, teams_posts, api_posts, exit_code, attempted,
                  raised, broke, int_at, shot_calls, flag_reads, sink_errors,
                  summaries, timed_out, signalled, outlook, test >>

NextOutlook ==
  \/ handle_interrupt
  \/ verify_email_received
  \/ OutlookVerdict
  \/ AfterRun
  \/ DelayAfter
  \/ LoopHead
  \/ finalize
  \/ save_report
  \/ post_to_teams
  \/ post_to_api
  \/ ReturnExitCode

SpecOutlook == InitOutlook /\ [][NextOutlook]_vars

\* the same, given that a call of _verify_email_received that can take a
\* step eventually takes it
SpecOutlookLive == SpecOutlook /\ WF_vars(verify_email_received)

\* ------------------------------ test classes whose run() is a list of steps
\* a one-entry suite whose test.run() has been called and has not returned:
\* every variable but test
InitInsideRun ==
  /\ pc = "running"
  /\ config = [exists |-> TRUE, has_suite_name |-> TRUE, tests_kind |-> "list",
               tests |-> << [has_module |-> TRUE, enabled |-> "true"] >>,
               teams_webhook |-> FALSE, api_url |-> FALSE]
  /\ enabled_tests = << 1 >>
  /\ idx = 1
  /\ test_config = NoTestConfig
  /\ interrupted = FALSE
  /\ result = mark_started(NewTestResult)
  /\ results = << >>
  /\ end_time = FALSE
  /\ saved = << >>
  /\ teams_posts = 0
  /\ api_posts = 0
  /\ exit_code = NoExit
  /\ attempted = << 1 >>
  /\ raised = {}
  /\ broke = FALSE
  /\ int_at = 0
  /\ shot_calls = 0
  /\ flag_reads = 1
  /\ sink_errors = {}
  /\ summaries = {}
  /\ timed_out = FALSE
  /\ signalled = FALSE
  /\ outlook = NoOutlook

\* what a step of run() can do: "ok" it did its work, "fail" it did not (a
\* helper that returns False, or one that swallows its own error), "raise" an
\* exception leaves the helper, "off" the step is switched off by the config
Checked(name, msg) ==
  [name |-> name, message |-> msg, checked |-> TRUE, outcomes |-> {"ok", "fail"}]
CheckedBare(name, msg) ==
  [name |-> name, message |-> msg, checked |-> TRUE, outcomes |-> {"ok", "fail", "raise"}]
Unchecked(name) ==
  [name |-> name, message |-> "", checked |-> FALSE, outcomes |-> {"ok", "fail"}]
UncheckedBare(name) ==
  [name |-> name, message |-> "", checked |-> FALSE, outcomes |-> {"ok", "raise", "off"}]

\* MicrosoftExcelTest.run, the body of its try block
ExcelSteps == <<
  CheckedBare("installed-check", "Microsoft Excel is not installed"),
  Checked("launch", "Failed to launch Microsoft Excel"),
  Checked("create workbook", "Failed to create new workbook"),
  Checked("enter data", "Failed to enter data into workbook"),
  Checked("save", "Failed to save workbook"),
  CheckedBare("file-exists check", "Workbook not found"),
  Unchecked("close"),
  Checked("reopen", "Failed to reopen workbook"),
  Checked("edit", "Failed to edit reopened workbook"),
  Checked("save-and-close", "Failed to save and close workbook"),
  UncheckedBare("delete file") >>

\* MicrosoftWordTest.run, the body of its try block
WordSteps == <<
  CheckedBare("installed-check", "Microsoft Word is not installed"),
  Checked("launch", "Failed to launch Microsoft Word"),
  Checked("create document", "Failed to create new document"),
  Checked("type content", "Failed to type content into document"),
  Checked("save", "Failed to save document"),
  CheckedBare("file-exists check", "Document not found"),
  Unchecked("close"),
  Checked("reopen", "Failed to reopen document"),
  Checked("edit", "Failed to edit reopened document"),
  Checked("save-and-close", "Failed to save and close document"),
  UncheckedBare("delete file") >>

\* TestTemplate.run, the body of its try block
TemplateSteps == <<
  CheckedBare("prerequisites", "Prerequisites not met"),
  Checked("setup", "Setup failed"),
  Checked("execute", "Test execution failed"),
  CheckedBare("validate", "Validation failed") >>

StepTestKinds == {"excel", "word", "template"}

StepsOf(kind) ==
  CASE kind = "excel" -> ExcelSteps
    [] kind = "word" -> WordSteps
    [] kind = "template" -> TemplateSteps

\* the messages of mark_passed and of the except clause of run()
PassedMessage(kind) ==
  CASE kind = "excel" -> "Microsoft Excel test completed successfully"
    [] kind = "word" -> "Microsoft Word test completed successfully"
    [] kind = "template" -> "Test completed successfully"

ExceptionMessage(kind) ==
  CASE kind = "excel" -> "Excel test failed with exception"
    [] kind = "word" -> "Word test failed with exception"
    [] kind = "template" -> "Test failed with exception"

\* run() has called mark_started and is about to enter its try block
NewStepTest(kind) ==
  [kind |-> kind, pos |-> 1, phase |-> "try", trace |-> << >>,
   cleanups |-> 0, status_at_cleanup |-> "none", cleanup_error |-> FALSE]

InitSteps ==
  /\ InitInsideRun
  /\ \E kind \in StepTestKinds : test = NewStepTest(kind)

\* run(): the next step of the try block, with the branch taken on its
\* outcome: mark_failed and return, the except clause, or go on (and
\* mark_passed after the last step)
RunStep ==
  /\ pc = "running"
  /\ test.kind \in StepTestKinds
  /\ test.phase = "try"
  /\ LET steps == StepsOf(test.kind)
         st == steps[test.pos]
     IN \E o \in st.outcomes :
          LET tr == Append(test.trace, [step |-> st.name, outcome |-> o]) IN
          IF o = "raise"
            THEN /\ result' = mark_failed(result, ExceptionMessage(test.kind))
                 /\ test' = [test EXCEPT !.trace = tr, !.phase = "finally"]
            ELSE IF o = "fail" /\ st.checked
              THEN /\ result' = mark_failed(result, st.message)
                   /\ test' = [test EXCEPT !.trace = tr, !.phase = "finally"]
              ELSE IF test.pos = Len(steps)
                THEN /\ result' = mark_passed(result, PassedMessage(test.kind))
                     /\ test' = [test EXCEPT !.trace = tr, !.pos = @ + 1,
                                             !.phase = "finally"]
                ELSE /\ result' = result
                     /\ test' = [test EXCEPT !.trace = tr, !.pos = @ + 1]
  /\ UNCHANGED << pc, config, enabled_tests, idx, test_config, interrupted,
                  results, end_time, saved, teams_posts, api_posts, exit_code,
                  attempted, raised, broke, int_at, shot_calls, flag_reads,
                  sink_errors, summaries, timed_out, signalled, outlook >>

\* a cleanup without its own try/except: its error leaves run()
StepCleanup_NoCatch ==
  /\ pc = "running"
  /\ test.kind \in StepTestKinds
  /\ test.phase = "finally"
  /\ \E err \in BOOLEAN :
       test' = [test EXCEPT !.cleanups = @ + 1,
                            !.status_at_cleanup = result.status,
                            !.cleanup_error = err,
                            !.phase = IF err THEN "escaped" ELSE "return"]
  /\ UNCHANGED << pc, config, enabled_tests, idx, test_config, interrupted, result,
                  results, end_time, saved, teams_posts, api_posts, exit_code,
                  attempted, raised, broke, int_at, shot_calls, flag_reads,
                  sink_errors, summaries, timed_out, signalled, outlook >>

\* the finally clause of run(): _cleanup / _ensure_excel_closed /
\* _ensure_word_closed, which catch and log their own errors
StepCleanup ==
  /\ pc = "running"
  /\ test.kind \in StepTestKinds
  /\ test.phase = "finally"
  /\ \E err \in BOOLEAN :
       test' = [test EXCEPT !.cleanups = @ + 1,
                            !.status_at_cleanup = result.status,
                            !.cleanup_error = err,
                            !.phase = "return"]
  /\ UNCHANGED << pc, config, enabled_tests, idx, test_config, interrupted, result,
                  results, end_time, saved, teams_posts, api_posts, exit_code,
                  attempted, raised, broke, int_at, shot_calls, flag_reads,
                  sink_errors, summaries, timed_out, signalled, outlook >>

\* run(): return self.result
StepReturn ==
  /\ pc = "running"
  /\ test.kind # "none"
  /\ test.phase = "return"
  /\ test' = [test EXCEPT !.phase = "returned"]
  /\ pc' = "returned"
  /\ UNCHANGED << config, enabled_tests, idx, test_config, interrupted, result,
                  results, end_time, saved, teams_posts, api_posts, exit_code,
                  attempted, raised, broke, int_at, shot_calls, flag_reads,
                  sink_errors, summaries, timed_out, signalled, outlook >>

NextSteps ==
  \/ handle_interrupt
  \/ RunStep
  \/ StepCleanup
  \/ StepReturn

SpecSteps == InitSteps /\ [][NextSteps]_vars

\* ------------------------------------------------ ApplicationLaunchTest
\* ApplicationLaunchTest.run: the app_name check before the try block, then
\* the body of the try block
LaunchOrder ==
  << "app_name", "installed", "monitor", "launch", "process", "ready", "logs",
     "close" >>

\* what each step can do, as for the steps above; "logs" fails when
\* _check_logs_for_errors returns a non-empty list
LaunchOutcomes(name, t) ==
  CASE name = "app_name" -> {"ok", "fail"}
    [] name = "installed" -> {"ok", "fail", "raise"}
    [] name = "monitor" -> {"ok", "raise", "off"}
    [] name = "launch" -> {"ok", "fail"}
    [] name = "process" -> {"ok", "fail", "raise"}
    [] name = "ready" -> {"ok", "fail"}
    [] name = "logs" -> IF t.monitoring THEN {"ok", "fail"} ELSE {"off"}
    [] name = "close" -> IF t.close_after_test THEN {"ok", "fail"} ELSE {"off"}

LaunchMessage(name) ==
  CASE name = "app_name" -> "No app_name specified in configuration"
    [] name = "installed" -> "is not installed"
    [] name = "launch" -> "Failed to launch"
    [] name = "process" -> "process not found after launch"
    [] name = "ready" -> "did not reach ready state"
    [] name = "logs" -> "Errors found in logs"
    [] OTHER -> ""

InitLaunch ==
  /\ InitInsideRun
  /\ \E c \in BOOLEAN :
       test = [kind |-> "launch", close_after_test |-> c, pos |-> 1,
               phase |-> "try", trace |-> << >>, monitoring |-> FALSE,
               launched |-> FALSE, close_calls |-> 0]

\* run(): the next step, with the branch taken on its outcome
LaunchStep ==
  /\ pc = "running"
  /\ test.kind = "launch"
  /\ test.phase = "try"
  /\ LET name == LaunchOrder[test.pos] IN
     \E o \in LaunchOutcomes(name, test) :
       LET t == [test EXCEPT
                   !.trace = Append(@, [step |-> name, outcome |-> o]),
                   !.monitoring = @ \/ (name = "monitor" /\ o = "ok"),
                   !.launched = @ \/ (name = "launch" /\ o = "ok"),
                   !.close_calls = IF name = "close" /\ o # "off" THEN @ + 1 ELSE @]
       IN
       IF o = "raise"
         THEN /\ result' = mark_failed(result, "Application test failed with exception")
              /\ test' = [t EXCEPT !.phase = "return"]
         ELSE IF o = "fail" /\ name # "close"
           THEN /\ result' = mark_failed(result, LaunchMessage(name))
                /\ test' = [t EXCEPT !.phase = "return"]
           ELSE IF test.pos = Len(LaunchOrder)
             THEN /\ result' = mark_passed(result, "launched successfully and reached ready state")
                  /\ test' = [t EXCEPT !.pos = @ + 1, !.phase = "return"]
             ELSE /\ result' = result
                  /\ test' = [t EXCEPT !.pos = @ + 1]
  /\ UNCHANGED << pc, config, enabled_tests, idx, test_config, interrupted,
                  results, end_time, saved, teams_posts, api_posts, exit_code,
                  attempted, raised, broke, int_at, shot_calls, flag_reads,
                  sink_errors, summaries, timed_out, signalled, outlook >>

NextLaunch ==
  \/ handle_interrupt
  \/ LaunchStep
  \/ StepReturn

SpecLaunch == InitLaunch /\ [][NextLaunch]_vars

\* ---------------------------------------------------------- NetworkTest
\* what requests.get can give _test_url: a status in 200..399, another
\* status, requests.Timeout, another RequestException
UrlOutcomes == {"status_ok", "status_bad", "timeout", "request_error"}

\* _test_url: result["success"]
UrlSuccess(o) == o = "status_ok"

\* what _test_dns can do when it is switched on: every domain resolved, some
\* nslookup returned non-zero, some nslookup timed out (caught and counted),
\* or subprocess.run raised another exception, which _test_dns does not catch
DnsOutcomes == {"resolved", "unresolved", "timeout", "error"}

\* what _test_connection_speed can do when it is switched on; it catches
\* every exception
SpeedOutcomes == {"measured", "error"}

\* run() has called mark_started; urls holds what each configured URL will
\* answer
InitNetwork ==
  /\ InitInsideRun
  /\ \E us \in SeqsUpTo(UrlOutcomes, MaxUrls) :
       test = [kind |-> "network", urls |-> us, pos |-> 1,
               phase |-> IF us = << >> THEN "no_urls" ELSE "urls",
               successful |-> 0, failed |-> 0, dns |-> "pending",
               speed |-> "pending"]

\* run(): not urls
NetworkNoUrls ==
  /\ pc = "running"
  /\ test.kind = "network"
  /\ test.phase = "no_urls"
  /\ result' = mark_failed(result, "No URLs configured for testing")
  /\ test' = [test EXCEPT !.phase = "return"]
  /\ UNCHANGED << pc, config, enabled_tests, idx, test_config, interrupted,
                  results, end_time, saved, teams_posts, api_posts, exit_code,
                  attempted, raised, broke, int_at, shot_calls, flag_reads,
                  sink_errors, summaries, timed_out, signalled, outlook >>

\* run(): one pass of  for url in urls
NetworkUrl ==
  /\ pc = "running"
  /\ test.kind = "network"
  /\ test.phase = "urls"
  /\ LET ok == UrlSuccess(test.urls[test.pos]) IN
     test' = [test EXCEPT
                !.successful = IF ok THEN @ + 1 ELSE @,
                !.failed = IF ok THEN @ ELSE @ + 1,
                !.pos = @ + 1,
                !.phase = IF test.pos = Len(test.urls) THEN "dns" ELSE "urls"]
  /\ UNCHANGED << pc, config, enabled_tests, idx, test_config, interrupted, result,
                  results, end_time, saved, teams_posts, api_posts, exit_code,
                  attempted, raised, broke, int_at, shot_calls, flag_reads,
                  sink_errors, summaries, timed_out, signalled, outlook >>

\* run(): the optional _test_dns; its tallies go to test_results["dns"] only
NetworkDns ==
  /\ pc = "running"
  /\ test.kind = "network"
  /\ test.phase = "dns"
  /\ \E o \in DnsOutcomes \cup {"off"} :
       IF o = "error"
         THEN /\ result' = mark_failed(result, "Network test failed with exception")
              /\ test' = [test EXCEPT !.dns = o, !.phase = "return"]
         ELSE /\ result' = result
              /\ test' = [test EXCEPT !.dns = o, !.phase = "speed"]
  /\ UNCHANGED << pc, config, enabled_tests, idx, test_config, interrupted,
                  results, end_time, saved, teams_posts, api_posts, exit_code,
                  attempted, raised, broke, int_at, shot_calls, flag_reads,
                  sink_errors, summaries, timed_out, signalled, outlook >>

\* run(): the optional _test_connection_speed, then the verdict on
\* test_results["failed"]
NetworkVerdict ==
  /\ pc = "running"
  /\ test.kind = "network"
  /\ test.phase = "speed"
  /\ \E o \in SpeedOutcomes \cup {"off"} :
       test' = [test EXCEPT !.speed = o, !.phase = "return"]
  /\ result' = IF test.failed > 0
                 THEN mark_failed(result, "Network test completed with failures")
                 ELSE mark_passed(result, "All URLs accessible, network performing correctly")
  /\ UNCHANGED << pc, config, enabled_tests, idx, test_config, interrupted,
                  results, end_time, saved, teams_posts, api_posts, exit_code,
                  attempted, raised, broke, int_at, shot_calls, flag_reads,
                  sink_errors, summaries, timed_out, signalled, outlook >>

NextNetwork ==
  \/ handle_interrupt
  \/ NetworkNoUrls
  \/ NetworkUrl
  \/ NetworkDns
  \/ NetworkVerdict
  \/ StepReturn

SpecNetwork == InitNetwork /\ [][NextNetwork]_vars

\* ------------------------------------------ BaseTest.wait_for_process
\* what one check_process_running can give: pgrep found the process, did not
\* find it, or did not answer within the command timeout (run_command
\* re-raises TimeoutExpired)
PollOutcomes == {"running", "absent", "TimeoutExpired"}

\* whole seconds a pgrep call can take on the clock of the loop
PollSeconds == {0, 1}

\* a test inside run() calls wait_for_process(process_name, timeout);
\* elapsed is time.time() - start_time
InitWait ==
  /\ InitInsideRun
  /\ \E t \in 0..MaxTimeout :
       test = [kind |-> "wait", timeout |-> t, elapsed |-> 0, polls |-> 0,
               observed |-> FALSE, poll_raised |-> FALSE, ret |-> "pending"]

\* the loop with  <=  for  <
wait_for_process_Inclusive ==
  /\ pc = "running"
  /\ test.kind = "wait"
  /\ test.ret = "pending"
  /\ IF test.elapsed <= test.timeout
       THEN \E o \in PollOutcomes, d \in PollSeconds :
              test' = [test EXCEPT
                         !.polls = @ + 1,
                         !.observed = (o = "running"),
                         !.poll_raised = (o = "TimeoutExpired"),
                         !.elapsed = IF o = "absent" THEN @ + d + 1 ELSE @ + d,
                         !.ret = CASE o = "running" -> "True"
                                   [] o = "TimeoutExpired" -> "raised"
                                   [] OTHER -> "pending"]
       ELSE test' = [test EXCEPT !.ret = "False"]
  /\ UNCHANGED << pc, config, enabled_tests, idx, test_config, interrupted, result,
                  results, end_time, saved, teams_posts, api_posts, exit_code,
                  attempted, raised, broke, int_at, shot_calls, flag_reads,
                  sink_errors, summaries, timed_out, signalled, outlook >>

\* wait_for_process: the loop test, then either one pass (the poll and, when
\* the process is absent, the sleep of one second) or  return False
wait_for_process ==
  /\ pc = "running"
  /\ test.kind = "wait"
  /\ test.ret = "pending"
  /\ IF test.elapsed < test.timeout
       THEN \E o \in PollOutcomes, d \in PollSeconds :
              test' = [test EXCEPT
                         !.polls = @ + 1,
                         !.observed = (o = "running"),
                         !.poll_raised = (o = "TimeoutExpired"),
                         !.elapsed = IF o = "absent" THEN @ + d + 1 ELSE @ + d,
                         !.ret = CASE o = "running" -> "True"
                                   [] o = "TimeoutExpired" -> "raised"
                                   [] OTHER -> "pending"]
       ELSE test' = [test EXCEPT !.ret = "False"]
  /\ UNCHANGED << pc, config, enabled_tests, idx, test_config, interrupted, result,
                  results, end_time, saved, teams_posts, api_posts, exit_code,
                  attempted, raised, broke, int_at, shot_calls, flag_reads,
                  sink_errors, summaries, timed_out, signalled, outlook >>

NextWait ==
  \/ handle_interrupt
  \/ wait_for_process

\* a call of wait_for_process that can take a step eventually takes it
SpecWait == InitWait /\ [][NextWait]_vars /\ WF_vars(wait_for_process)

\* ------------------------------------------------------------------------
\* Properties
\* ------------------------------------------------------------------------
\* run() went through finalize and returned
RunReturned == pc = "done" /\ end_time

IsFailureRecord(r) ==
  /\ r.status = "failed"
  /\ r.message \in {"Exception raised", "Failed to initialise test"}

\* C1: in a run that is neither interrupted nor fatal, the entries loaded and
\* constructed are exactly the entries whose enabled flag is not false, in
\* configured order; an entry with enabled = false is never loaded.
C1_EnabledEntriesInOrder ==
  /\ \A k \in 1..Len(attempted) : config.tests[attempted[k]].enabled # "false"
  /\ \A k \in 1..(Len(attempted) - 1) : attempted[k] < attempted[k + 1]
  /\ (RunReturned /\ ~broke) =>
       \A i \in 1..Len(config.tests) :
         config.tests[i].enabled # "false" =>
           \E k \in 1..Len(attempted) : attempted[k] = i

\* C1 witness: a completed, uninterrupted run of a suite with a disabled entry
\* in front of an enabled one that was loaded
C1_Witness ==
  /\ RunReturned /\ ~broke
  /\ Len(config.tests) = 2
  /\ config.tests[1].enabled = "false"
  /\ attempted = << 2 >>

\* C2: a failure raised while resolving, constructing or running an entry is
\* caught in that iteration and recorded as a failed result with the error
\* message, the loop goes on to the next entry, and run() never takes its
\* fatal exit for it.
C2_FailureIsolated ==
  /\ \A e \in raised :
       (pc = "except" /\ CurrentEntry = e) \/
       (\E k \in 1..Len(results) : results[k].entry = e /\ IsFailureRecord(results[k]))
  /\ attempted # << >> => exit_code # ExitFatal
  /\ pc = "loop" => idx = Len(attempted) + 1
  /\ (RunReturned /\ ~broke) => Len(attempted) = Len(enabled_tests)

\* C2 witness: the first entry raised and the second entry was still loaded
C2_Witness ==
  /\ Len(attempted) = 2
  /\ attempted[1] \in raised
  /\ pc = "run"

\* C3: a signal arriving while entry i executes lets entry i finish and be
\* recorded, no later entry is loaded, and the report that is saved holds
\* exactly the results of entries 1..i.
C3_InterruptedReportCoversCompleted ==
  (int_at > 0 /\ pc = "done") =>
    /\ Len(attempted) = int_at
    /\ Len(saved) = 1
    /\ LET rs == saved[1].results IN
         /\ Len(rs) = int_at
         /\ \A k \in 1..Len(rs) : rs[k].entry = enabled_tests[k]

\* C4: a run whose remaining entries were skipped because the cancellation
\* flag was observed exits with code 130.
C4_InterruptedExits130 ==
  (pc = "done" /\ broke) => exit_code = ExitInterrupted

\* C5 as stated: exit code 0 iff at least one test was executed and every
\* recorded status is 'passed'.
C5_ZeroIffAllPassed ==
  pc = "done" =>
    (exit_code = ExitOk <=>
       (Len(results) >= 1 /\ \A k \in 1..Len(results) : results[k].status = "passed"))

\* C5 amended: exit code 0 iff at least one result was recorded and no
\* recorded status is 'failed'.
C5_ZeroIffNoneFailed ==
  pc = "done" =>
    (exit_code = ExitOk <=>
       (Len(results) >= 1 /\ \A k \in 1..Len(results) : results[k].status # "failed"))

\* C5 witness: a run that returned 0 with a skipped result among its records
C5_Witness ==
  /\ pc = "done"
  /\ exit_code = ExitOk
  /\ \E k \in 1..Len(results) : results[k].status = "skipped"

\* a configuration error ended the process
ConfigErrorExit ==
  /\ pc = "done"
  /\ ~config.exists \/ (~ValidConfig(config) /\ exit_code # ExitInterrupted)

\* C6: exit code 1 only with a failed result; a configuration error exits
\* with a code other than 0, 1, 2 and 130.
C6_ExitOneOnlyOnFailedTest ==
  /\ (pc = "done" /\ exit_code = ExitFailures) =>
       \E k \in 1..Len(results) : results[k].status = "failed"
  /\ ConfigErrorExit =>
       exit_code \notin {ExitOk, ExitFailures, ExitNoTests, ExitInterrupted}

\* C7: after a run, passed + failed + skipped plus the enabled entries never
\* reached equals the number of enabled entries; the summary total equals
\* passed + failed + skipped and the number of attempted entries.
C7_SummaryAccountsForEntries ==
  RunReturned =>
    LET s == get_summary(results) IN
      /\ s.passed + s.failed + s.skipped + (Len(enabled_tests) - Len(attempted))
           = Len(enabled_tests)
      /\ s.total_tests = s.passed + s.failed + s.skipped
      /\ s.total_tests = Len(attempted)

\* C8: at the end of the loop the result list holds exactly one record per
\* attempted entry, in attempt order, whichever step of the entry failed.
C8_OneRecordPerAttempt ==
  pc \in {"finalize", "save", "teams", "api", "summary"} =>
    /\ Len(results) = Len(attempted)
    /\ \A k \in 1..Len(results) : results[k].entry = attempted[k]

StatusSteps ==
  { << "not_run", "running" >>, << "running", "passed" >>,
    << "running", "failed" >>, << "not_run", "skipped" >> }

\* C9: the status of a TestResult changes only along not_run -> running ->
\* passed | failed, or not_run -> skipped; a terminal status is never replaced.
C9_StatusTransitions ==
  [][ (pc # "load" /\ result'.status # result.status) =>
        << result.status, result'.status >> \in StatusSteps ]_vars

IsPrefix(s, t) ==
  /\ Len(s) <= Len(t)
  /\ \A k \in 1..Len(s) : t[k] = s[k]

\* C10: the result list is append-only: no step of the run changes, removes
\* or reorders a record that was added.
C10_ResultsAppendOnly == [][ IsPrefix(results, results') ]_vars

\* C10 witness: a run with two records that went through finalize, the
\* report, both notifications and the summary
C10_Witness ==
  /\ pc = "done"
  /\ Len(results) >= 2
  /\ Len(saved) = 1
  /\ teams_posts = 1
  /\ api_posts = 1

HasRecord(e) == \E k \in 1..Len(results) : results[k].entry = e

\* positions of attempted whose entry has been started and has no record yet
InFlight == { k \in 1..Len(attempted) : ~HasRecord(attempted[k]) }

\* C11: at every point of a run at most one entry is between the start of its
\* load and the recording of its result, and an entry is loaded only when
\* every entry before it has been recorded.
C11_OneEntryAtATime ==
  /\ Cardinality(InFlight) <= 1
  /\ InFlight # {} =>
       /\ InFlight = {Len(attempted)}
       /\ pc \in {"run", "running", "returned", "except"}
  /\ pc = "load" => \A k \in 1..(idx - 1) : HasRecord(enabled_tests[k])

\* C11 witness: the signal handler has run while the second entry is inside
\* run() and the first entry is recorded
C11_Witness ==
  /\ pc = "running"
  /\ interrupted
  /\ Len(attempted) = 2
  /\ InFlight = {2}

\* positions of run() inside one iteration of the loop
IterationPcs == {"load", "run", "running", "returned", "except", "delay", "sleeping"}

\* C12: the cancellation flag is read once per iteration, before the entry is
\* loaded; a signal during run(), the screenshot or the delay changes nothing
\* but the flag, and the iteration in flight is never cut short: it goes on
\* to the next loop head.
C12_FlagReadOncePerIteration ==
  /\ [](pc \in IterationPcs => flag_reads = 1)
  /\ [][ interrupted' # interrupted =>
           UNCHANGED << pc, idx, test_config, result, results, attempted,
                        exit_code, flag_reads >> ]_vars
  /\ [][ (pc \in IterationPcs /\ pc' # pc) =>
           /\ pc' \in IterationPcs \cup {"loop"}
           /\ pc' = "loop" =>
                /\ idx' = idx + 1
                /\ \E k \in 1..Len(results') : results'[k].entry = CurrentEntry ]_vars

\* C12 witness: the signal came during run() of an entry whose passed result
\* is recorded and the loop is back at its head
C12_Witness ==
  /\ pc = "loop"
  /\ interrupted
  /\ int_at >= 1
  /\ idx = int_at + 1
  /\ results # << >>
  /\ results[Len(results)].status = "passed"

\* C13: the orchestrator captures a screenshot for an entry only if its
\* outcome is failed and screenshot_on_failure is enabled, also when run()
\* raised.
C13_ScreenshotOnlyWhenConfigured ==
  (pc \in {"returned", "except", "delay", "sleeping"} /\ shot_calls > 0) =>
    (test_config.screenshot_on_failure /\ result.status = "failed")

\* C14 as stated: every attempted entry with a positive delay_after reaches
\* the next cancellation check through the delay, also when it could not be
\* resolved or constructed.
C14_DelayAfterEveryAttempt ==
  [][ (pc \in IterationPcs /\ pc' = "loop" /\ test_config.delay_after = "positive")
        => pc = "sleeping" ]_vars

\* C14 amended: an entry whose result was returned by _run_test and recorded
\* gets its positive delay after the record and before the next cancellation
\* check, whatever the status; an entry that could not be resolved or
\* constructed, or whose exception screenshot raised, goes to the check
\* without delay.
C14_DelayAfterCollectedResult ==
  /\ [](pc = "sleeping" =>
          /\ test_config.delay_after = "positive"
          /\ results # << >>
          /\ results[Len(results)].entry = CurrentEntry)
  /\ [][ (pc = "delay" /\ test_config.delay_after = "positive" /\ pc' # pc) =>
           (pc' = "sleeping" /\ UNCHANGED << idx, results >>) ]_vars
  /\ [][ (pc \in IterationPcs \ {"load", "except"} /\ pc' = "loop"
            /\ test_config.delay_after = "positive") => pc = "sleeping" ]_vars
  /\ [][ (pc \in {"load", "except"} /\ pc' = "loop") =>
           \E e \in Exceptions :
             results' = Append(results, InitFailedRecord(CurrentEntry, e)) ]_vars

\* C14 witness: the delay of an entry whose failed result is recorded is
\* running, and the signal has arrived for the check that follows
C14_Witness ==
  /\ pc = "sleeping"
  /\ interrupted
  /\ results[Len(results)].status = "failed"

\* the exit code of a run with these results and no sink configured
ExitCodeWithoutSinks ==
  IF \E k \in 1..Len(results) : results[k].status = "failed" THEN ExitFailures
  ELSE IF results = << >> THEN ExitNoTests
  ELSE ExitOk

\* C15: a failing notification sink (network error, non-2xx response) never
\* changes the exit code of run(): it is the code the same results give with
\* no sink configured, and never the fatal code.
C15_SinkFailureKeepsExitCode ==
  /\ RunReturned => exit_code = ExitCodeWithoutSinks
  /\ sink_errors # {} => exit_code \in {NoExit, ExitCodeWithoutSinks}

\* C15 witness: both sinks failed and the run of passing tests returned 0
C15_Witness ==
  /\ pc = "done"
  /\ sink_errors = {"teams", "api"}
  /\ exit_code = ExitOk

\* C16: a sink is posted to iff it is configured, at most once per run and
\* only after the report is saved; a failed Teams post does not suppress the
\* API post.
C16_SinksPostedIffConfigured ==
  /\ teams_posts <= 1 /\ api_posts <= 1
  /\ teams_posts + api_posts > 0 => Len(saved) = 1
  /\ teams_posts > 0 => config.teams_webhook
  /\ api_posts > 0 => config.api_url
  /\ RunReturned =>
       /\ config.teams_webhook => teams_posts = 1
       /\ config.api_url => api_posts = 1

\* C16 witness: the Teams post failed and the API post was still made
C16_Witness ==
  /\ pc = "done"
  /\ "teams" \in sink_errors
  /\ api_posts = 1

\* the suite specification lacks a required field
LacksRequired ==
  \/ ~config.has_suite_name
  \/ config.tests_kind # "list"
  \/ \E i \in 1..Len(config.tests) : ~config.tests[i].has_module

\* C17: with suite_name or tests missing, tests not a list or an entry
\* without module, no test is loaded, no result recorded and no report
\* written, and run() returns the fatal code.  (run() was called iff the file
\* exists and main() did not return 130.)
C17_InvalidConfigIsFatal ==
  LacksRequired =>
    /\ attempted = << >> /\ results = << >> /\ saved = << >>
    /\ pc \in {"main", "import", "idle", "done"}
    /\ (pc = "done" /\ config.exists /\ exit_code # ExitInterrupted) =>
         exit_code = ExitFatal

\* C17 witness: run() returned 3 for a suite whose second entry has no module
C17_Witness ==
  /\ pc = "done"
  /\ exit_code = ExitFatal
  /\ Len(config.tests) = 2
  /\ config.tests[1].has_module /\ ~config.tests[2].has_module

\* the run completed, A's run() returned passed, C's test failed, and nothing
\* else was recorded (no step outside the tests raised)
ScenarioABCRan ==
  /\ RunReturned /\ ~broke
  /\ \E k \in 1..Len(results) : results[k].entry = 1 /\ results[k].status = "passed"
  /\ \E k \in 1..Len(results) : results[k].entry = 3 /\ results[k].status = "failed"
  /\ \A k \in 1..Len(results) : results[k].message # "Failed to initialise test"

NoneEnabled == \A i \in 1..Len(config.tests) : config.tests[i].enabled = "false"

\* C19: with no enabled entry (empty list or all disabled) no test is
\* constructed, the summary is all zero, a report is still written and the
\* exit code is 2.
C19_NoEnabledEntries ==
  NoneEnabled =>
    /\ attempted = << >>
    /\ RunReturned =>
         /\ LET s == get_summary(results) IN
              /\ s.total_tests = 0 /\ s.passed = 0 /\ s.failed = 0 /\ s.skipped = 0
              /\ Len(saved) = 1
              /\ saved[1].summary = s
         /\ exit_code = ExitNoTests

\* C19 witness: a suite of two disabled entries has run and returned 2
C19_Witness ==
  /\ RunReturned
  /\ Len(config.tests) = 2
  /\ NoneEnabled
  /\ exit_code = ExitNoTests

Abs(x) == IF x < 0 THEN 0 - x ELSE x

\* rate (in tenths of a percent) is 0 for an empty list, else the tenth
\* nearest to passed/total x 100
IsRoundedRate(rate, rs) ==
  LET total == Len(rs)
      passed == Cardinality({ k \in 1..Len(rs) : rs[k].status = "passed" })
  IN IF total = 0 THEN rate = 0
     ELSE 2 * Abs(rate * total - 1000 * passed) <= total

\* C20: the success rate of every summary is 0 for an empty result list and
\* passed/total x 100 rounded to one decimal otherwise.
C20_SuccessRateRounded ==
  /\ IsRoundedRate(get_summary(results).success_rate, results)
  /\ \A k \in 1..Len(saved) :
       IsRoundedRate(saved[k].summary.success_rate, saved[k].results)

\* C20 witness: a saved report with two of three tests passed, 66.7%
C20_Witness ==
  /\ saved # << >>
  /\ Len(saved[1].results) = 3
  /\ saved[1].summary.passed = 2
  /\ saved[1].summary.success_rate = 667

\* C21: the exit code of a run that reaches the summary is determined by the
\* failed and total counts of the result list alone: 1 when a result failed,
\* else 2 when there is no result, else 0, whatever was raised on the way
\* and whatever happened to the notifications.
C21_ExitCodeFromCounts ==
  RunReturned =>
    LET failed == Cardinality({ k \in 1..Len(results) : results[k].status = "failed" })
        total == Len(results)
    IN exit_code = IF failed > 0 THEN ExitFailures
                   ELSE IF total = 0 THEN ExitNoTests
                   ELSE ExitOk

\* C21 witness: a run in which a load error was recorded and a POST failed
\* returned the code of its counts
C21_Witness ==
  /\ RunReturned
  /\ raised # {}
  /\ sink_errors # {}
  /\ Len(results) = 2
  /\ exit_code = ExitFailures

\* C22: get_summary is pure: a step that calls it leaves the result list and
\* the reporter's end time as they were, and all calls made with no
\* add_result or finalize in between return the same counts, success rate
\* and duration.
C22_GetSummaryPure ==
  /\ [](Cardinality(summaries) <= 1)
  /\ [][(pc \in {"save", "teams", "api", "summary"}) =>
          (results' = results /\ end_time' = end_time)]_vars

\* C22 witness: the report, both notifications and the exit code each called
\* get_summary on a non-empty result list
C22_Witness ==
  /\ RunReturned
  /\ teams_posts = 1 /\ api_posts = 1
  /\ results # << >>
  /\ summaries = {get_summary_call}

\* C23: parsing the JSON report back gives, for every test in the same
\* order, the status, message and duration of the in-memory result list.
C23_JsonRoundTrip ==
  \A k \in 1..Len(saved) :
    LET back == json_loads_results(saved[k].json) IN
      /\ Len(back) = Len(results)
      /\ \A i \in 1..Len(back) :
           /\ back[i].status = results[i].status
           /\ back[i].message = results[i].message
           /\ back[i].duration = results[i].duration

\* C23 witness: a report was written whose message holds a backslash in
\* front of an 'n' and whose duration has two digits
C23_Witness ==
  /\ saved # << >>
  /\ Len(results) = 1
  /\ results[1].message = << Backslash, "n" >>
  /\ results[1].duration = 10

\* C24: when a bounded external call made by an entry's test exceeds its
\* timeout, the result recorded for the entry is 'failed' and the
\* orchestrator does not take its fatal exit.
C24_TimeoutGivesFailed ==
  /\ (timed_out /\ pc \in {"delay", "sleeping"}) =>
       /\ results[Len(results)].entry = CurrentEntry
       /\ results[Len(results)].status = "failed"
  /\ timed_out => exit_code # ExitFatal

\* C25: no state is shared across entries or runs: run() is entered on a
\* test whose TestResult is fresh, the loop of every invocation of run()
\* starts with an empty result list, and the cancellation flag is set in a
\* run only if a signal arrived since that run was called.
C25_NoSharedState ==
  /\ pc = "run" => result = NewTestResult
  /\ (pc = "loop" /\ idx = 1) => results = << >>
  /\ pc \in RunnerPcs => (interrupted => signalled)
  /\ broke => signalled

\* C26: a run whose configuration loaded and whose tests all return or raise
\* leaves the loop, calls finalize, saves the report exactly once and
\* returns an exit code, whenever the signal arrives.
C26_RunTerminates ==
  /\ [](Len(saved) <= 1)
  /\ (pc = "loop") ~>
       (/\ pc = "done"
        /\ end_time
        /\ Len(saved) = 1
        /\ exit_code \in {ExitOk, ExitFailures, ExitNoTests})

\* C26 witness: a run that was interrupted during its first entry has
\* left the loop through the break, saved one report and returned
C26_Witness ==
  /\ RunReturned
  /\ broke
  /\ int_at = 1
  /\ Len(saved) = 1
  /\ exit_code \in {ExitOk, ExitFailures, ExitNoTests}

\* C27: when an entry's module reference cannot be resolved or its
\* constructor raises, run() is not invoked and no screenshot is captured
\* for the entry, and the record added for it names the entry, has status
\* 'failed', duration 0 and carries the error text.
C27_LoadFailureRecord ==
  [][(pc = "load" /\ pc' \notin {"load", "run"}) =>
       (/\ pc' = "loop"
        /\ result' = result
        /\ shot_calls' = 0
        /\ Len(results') = Len(results) + 1
        /\ LET rec == results'[Len(results')] IN
             /\ rec.entry = CurrentEntry
             /\ rec.status = "failed"
             /\ rec.duration = 0
             /\ rec.shots = 0
             /\ rec.message = "Failed to initialise test"
             /\ rec.error_details \in LoadErrors \cup CtorErrors)]_vars

\* C27 witness: the second entry's reference had no dot and its record is
\* the last of the list
C27_Witness ==
  /\ pc = "loop"
  /\ idx = 3
  /\ Len(results) = 2
  /\ results[2].message = "Failed to initialise test"
  /\ results[2].error_details = "ValueError"
  /\ shot_calls = 0

TerminalStatuses == {"passed", "failed", "skipped"}

\* C28: every record of the result list has a terminal status, and a test's
\* run() never returns a result that is still 'not_run' or 'running'.
C28_RecordsAreTerminal ==
  /\ \A k \in 1..Len(results) : results[k].status \in TerminalStatuses
  /\ pc = "returned" => result.status \in TerminalStatuses
  /\ \A j \in 1..Len(saved) : \A k \in 1..Len(saved[j].results) :
       saved[j].results[k].status \in TerminalStatuses

\* C28 witness: a skipped result and the result of a run() that raised
\* before marking are in the saved report
C28_Witness ==
  /\ RunReturned
  /\ Len(results) = 2
  /\ results[1].status = "skipped"
  /\ results[2].message = "Exception raised"
  /\ saved[1].results = results

\* C29: a signal that arrives when no unattempted entry remains changes
\* neither the result list nor the exit code: the handler only sets the
\* flag, the flag is not read again once every enabled entry has been
\* attempted, and the loop is left through its break only while an
\* unattempted entry remains.
C29_LateInterruptHasNoEffect ==
  /\ [](broke => Len(attempted) < Len(enabled_tests))
  /\ [][(interrupted' # interrupted) =>
          UNCHANGED << pc, enabled_tests, idx, test_config, result, results,
                       end_time, saved, exit_code, attempted >>]_vars
  /\ [][(Len(attempted) = Len(enabled_tests)) => (flag_reads' <= flag_reads)]_vars

\* C29 witness: the signal came while the last of two entries was running,
\* and the run went on to record both and return
C29_Witness ==
  /\ RunReturned
  /\ Len(enabled_tests) = 2
  /\ int_at = 2
  /\ ~broke
  /\ Len(results) = 2
  /\ exit_code = ExitOk

\* C30: _verify_email_received returns True only if some attempt's query
\* reported that the message exists, and when every attempt reports it as
\* not found it returns False and the test result is 'failed'.
C30_VerifiedOnlyWhenFound ==
  /\ outlook.verified = "true" =>
       \E i \in 1..outlook.attempt : outlook.stdouts[i] = FoundOut
  /\ (/\ outlook.stdouts # << >>
      /\ \A i \in 1..Len(outlook.stdouts) : outlook.stdouts[i] = NotFoundOut
      /\ pc = "returned") =>
       (outlook.verified = "false" /\ result.status = "failed")

\* C31: _verify_email_received makes at most receive_check_attempts inbox
\* queries, makes none after the first query whose answer it takes for a
\* receipt, waits and syncs after every query that is followed by another and
\* never after the last one, and always returns.
C31_VerifyReceiptLoop ==
  /\ [](outlook.attempt <= Len(outlook.stdouts))
  /\ []((outlook.verified = "true") =>
          /\ outlook.attempt >= 1
          /\ Contains("found", outlook.stdouts[outlook.attempt])
          /\ \A i \in 1..(outlook.attempt - 1) :
               ~ Contains("found", outlook.stdouts[i]))
  /\ [][(outlook.verified # "pending") => (outlook' = outlook)]_vars
  /\ [](outlook.synced =
          IF outlook.verified = "pending" /\ outlook.attempt < Len(outlook.stdouts)
            THEN 1..outlook.attempt
            ELSE 1..(outlook.attempt - 1))
  /\ [](Len(outlook.stdouts) \notin outlook.synced)
  /\ <>(outlook.verified # "pending")

\* all three attempts were made without a receipt, with a wait-and-sync step
\* after the first and the second only
C31_Witness ==
  /\ Len(outlook.stdouts) = 3
  /\ outlook.attempt = 3
  /\ outlook.verified = "false"
  /\ outlook.synced = {1, 2}
  /\ \A i \in 1..3 : outlook.stdouts[i] = ErrorOut

\* C32: in TestTemplate.run, MicrosoftExcelTest.run and MicrosoftWordTest.run
\* the cleanup step runs exactly once on every path out of run(), after the
\* terminal status is set; an error inside it leaves the status as it was and
\* does not leave run().
C32_CleanupExactlyOnce ==
  test.kind \in StepTestKinds =>
    /\ test.cleanups <= 1
    /\ test.phase # "escaped"
    /\ test.phase \in {"return", "returned"} <=> test.cleanups = 1
    /\ pc = "returned" => test.phase = "returned"
    /\ test.cleanups = 1 =>
         /\ test.status_at_cleanup \in {"passed", "failed"}
         /\ result.status = test.status_at_cleanup

\* run() returned a passed result although its cleanup met an error
C32_Witness ==
  /\ test.kind \in StepTestKinds
  /\ pc = "returned"
  /\ test.cleanups = 1
  /\ test.cleanup_error
  /\ result.status = "passed"

\* C34: MicrosoftExcelTest.run executes installed-check, launch, create
\* workbook, enter data, save, file-exists check, close, reopen, edit,
\* save-and-close in this order; at the first step that fails the result is
\* marked failed with that step's message and no later step executes; the
\* result is passed only if every one of the ten steps succeeded.
ExcelOrder ==
  << "installed-check", "launch", "create workbook", "enter data", "save",
     "file-exists check", "close", "reopen", "edit", "save-and-close" >>

C34_ExcelStepsInOrder ==
  test.kind = "excel" =>
    /\ \A i \in 1..Len(test.trace) :
         i <= Len(ExcelOrder) => test.trace[i].step = ExcelOrder[i]
    /\ \A i \in 1..Len(test.trace) :
         (i <= Len(ExcelOrder) /\ test.trace[i].outcome = "fail") =>
           /\ Len(test.trace) = i
           /\ result.status = "failed"
           /\ result.message = ExcelSteps[i].message
    /\ result.status = "passed" =>
         /\ Len(test.trace) >= Len(ExcelOrder)
         /\ \A i \in 1..Len(ExcelOrder) : test.trace[i].outcome = "ok"

\* C33: in ApplicationLaunchTest.run with close_after_test enabled, whenever
\* the application was launched, it has been closed by the time run()
\* returns, whatever the path.
C33_LaunchedAppIsClosed ==
  (/\ test.kind = "launch"
   /\ test.close_after_test
   /\ test.launched
   /\ test.phase = "returned") => test.close_calls >= 1

\* C35: NetworkTest.run returns passed if and only if at least one URL is
\* configured and every URL check succeeded; once the URLs are checked its
\* counters satisfy successful + failed = urls_tested; the DNS and speed-test
\* outcomes never change the verdict.
C35_NetworkVerdict ==
  test.kind = "network" =>
    /\ test.phase \in {"dns", "speed", "return", "returned"} /\ test.urls # << >> =>
         test.successful + test.failed = Len(test.urls)
    /\ test.phase \in {"return", "returned"} =>
         (result.status = "passed" <=>
            /\ test.urls # << >>
            /\ \A i \in 1..Len(test.urls) : UrlSuccess(test.urls[i]))

\* C36: wait_for_process always ends; it returns True only if a poll saw the
\* process running; it returns False once the timeout has elapsed with no poll
\* having seen it, and with timeout 0 it returns False without polling.
C36_WaitForProcess ==
  /\ [](test.ret = "True" => test.observed)
  /\ [](test.ret = "False" => (~ test.observed /\ test.elapsed >= test.timeout))
  /\ []((test.ret # "pending" /\ ~ test.observed /\ ~ test.poll_raised) =>
          test.ret = "False")
  /\ []((test.timeout = 0 /\ test.ret # "pending") =>
          (test.ret = "False" /\ test.polls = 0))
  /\ [](test.polls <= test.timeout)
  /\ <>(test.ret # "pending")

\* every poll of a three-second wait missed the process and the call
\* returned False
C36_Witness ==
  /\ test.kind = "wait"
  /\ test.timeout = 3
  /\ test.polls = 3
  /\ test.ret = "False"

\* C37: the theme colour of the chat card is the success colour 00FF00 if
\* and only if no result in the list is failed, and the failure colour FF0000
\* otherwise, for every result list.
C37_CardColourOnFailures ==
  teams_posts > 0 =>
    /\ teams_card.themeColor \in {SuccessColour, FailureColour}
    /\ teams_card.themeColor = SuccessColour <=>
         (\A i \in 1..Len(results) : results[i].status # "failed")
    /\ teams_card.themeColor = SuccessColour <=> teams_card.facts.summary.failed = 0

\* a card was posted for a list with a skipped test and no failed one
C37_Witness ==
  /\ teams_posts = 1
  /\ Len(results) = 2
  /\ results[1].status = "passed"
  /\ results[2].status = "skipped"
  /\ teams_card.themeColor = SuccessColour

====
